---- MODULE Spec2Model ----
(***************************************************************************)
(* Habit & To-Do Tracker API (src/backend_api/src/api/main.py).            *)
(*                                                                         *)
(* Two insertion-ordered in-memory stores, TASKS and HABITS, and the five  *)
(* request handlers of each.  A Python value that may be None is written   *)
(* as a sequence of length at most one: <<>> is None, <<v>> is v.  A field *)
(* of a request body is <<>> when the body leaves it out and <<x>> when    *)
(* the body carries x (x itself None or a value).                          *)
(***************************************************************************)
EXTENDS Integers, Sequences, FiniteSets, TLC

(* ---------------------------- bounds ----------------------------------- *)
MaxIds == 2
MaxClock == 1
MaxRequests == 3
MaxThreads == 2
MaxOptionalFields == 1

(* ------------------------ program constants ---------------------------- *)
DefaultPriority == 3
PageMin == 1
SizeMin == 1
SizeMax == 200
DocPriorityMin == 1
DocPriorityMax == 5

(* ------------------------- Python values ------------------------------- *)
None == <<>>
Some(v) == <<v>>
Unset == <<>>
Given(x) == <<x>>
IsNone(o) == Len(o) = 0
Val(o) == o[1]

Titles == {"t1", "t2"}
Texts == {"d1"}
Dates == {1}
Priorities == {1, 9}
TagNames == {"x", "y"}
TagLists == {<<"x">>, <<"y", "x">>}
Frequencies == {"weekly"}
Targets == {5}
Units == {"min"}

Opt(S) == {None} \cup {Some(v) : v \in S}
Field(S) == {Unset} \cup {Given(o) : o \in Opt(S)}

VARIABLES
    TASKS,      \* main.py:34, insertion ordered: <<[key, value], ...>>
    HABITS,     \* main.py:35
    clock,      \* what datetime.utcnow() returns
    issued,     \* how many identifiers uuid.uuid4() has handed out
    req,        \* the request handled last: handler, path identifier, and the
                \* body when the handler got as far as using it
    resp,       \* its response
    deleted,    \* history: identifiers whose DELETE returned 204
    untouched,  \* history: per identifier, the record its POST returned, until
                \* a PATCH or DELETE reaches that record
    nreq,       \* requests taken up so far
    threads,    \* worker threads of the thread pool, each inside one handler
    orphans     \* records removed from the store that a handler still refers to

vars == <<TASKS, HABITS, clock, issued, req, resp, deleted, untouched, nreq, threads, orphans>>

(* ------------------- dict (insertion ordered) -------------------------- *)
Keys(d) == {d[i].key : i \in 1..Len(d)}
DictHas(d, k) == k \in Keys(d)
DictIndex(d, k) == CHOOSE i \in 1..Len(d) : d[i].key = k
DictGet(d, k) == IF DictHas(d, k) THEN Some(d[DictIndex(d, k)].value) ELSE None
\* As DictSet, were the store a list of entries appended to on every write.
DictSetAppends(d, k, v) == Append(d, [key |-> k, value |-> v])

DictSet(d, k, v) ==
    IF DictHas(d, k)
    THEN [d EXCEPT ![DictIndex(d, k)] = [key |-> k, value |-> v]]
    ELSE Append(d, [key |-> k, value |-> v])
\* As DictDel, were the removal left out.
DictDelKeeps(d, k) == d

DictDel(d, k) ==
    LET i == DictIndex(d, k)
    IN  SubSeq(d, 1, i - 1) \o SubSeq(d, i + 1, Len(d))
DictValues(d) == [i \in 1..Len(d) |-> d[i].value]

(* --------------------- request bodies (raw JSON) ----------------------- *)
\* Every value a body carries has the JSON type its field asks for, or is
\* null; a body gives at most MaxOptionalFields of the fields that have a
\* default.
GivenFields(b) == {k \in DOMAIN b : b[k] # Unset}

TaskBodies ==
    {b \in [title : Field(Titles), description : Field(Texts), due_date : Field(Dates),
            priority : Field(Priorities), tags : Field(TagLists),
            completed : Field(BOOLEAN)] :
        Cardinality(GivenFields(b) \ {"title"}) <= MaxOptionalFields}

HabitBodies ==
    {b \in [name : Field(Titles), description : Field(Texts),
            frequency : Field(Frequencies), target : Field(Targets),
            unit : Field(Units), tags : Field(TagLists)] :
        Cardinality(GivenFields(b) \ {"name"}) <= MaxOptionalFields}

TaskUpdateBodies == {b \in TaskBodies : Cardinality(GivenFields(b)) <= MaxOptionalFields}
HabitUpdateBodies == {b \in HabitBodies : Cardinality(GivenFields(b)) <= MaxOptionalFields}

(* ------------------------- pydantic models ----------------------------- *)
\* A required field must be given; a field whose type is not Optional[...]
\* rejects an explicit null.
Required(b, k) == b[k] # Unset /\ b[k] # Given(None)
NotNull(b, k) == b[k] # Given(None)
OrDefault(b, k, dflt) == IF b[k] = Unset THEN dflt ELSE b[k][1]

TaskCreateValid(b) ==
    Required(b, "title") /\ NotNull(b, "tags") /\ NotNull(b, "completed")

TaskCreate(b) ==
    [title |-> b.title[1],
     description |-> OrDefault(b, "description", None),
     due_date |-> OrDefault(b, "due_date", None),
     priority |-> OrDefault(b, "priority", Some(DefaultPriority)),
     tags |-> OrDefault(b, "tags", Some(<<>>)),
     completed |-> OrDefault(b, "completed", Some(FALSE))]

HabitCreateValid(b) ==
    Required(b, "name") /\ NotNull(b, "frequency") /\ NotNull(b, "tags")

HabitCreate(b) ==
    [name |-> b.name[1],
     description |-> OrDefault(b, "description", None),
     frequency |-> OrDefault(b, "frequency", Some("daily")),
     target |-> OrDefault(b, "target", None),
     unit |-> OrDefault(b, "unit", None),
     tags |-> OrDefault(b, "tags", Some(<<>>))]

\* Task(**record) / Habit(**record): building the response model fails when a
\* field that is not Optional[...] holds None.
Task(record) ==
    ~IsNone(record.title) /\ ~IsNone(record.tags) /\ ~IsNone(record.completed)

Habit(record) ==
    ~IsNone(record.name) /\ ~IsNone(record.frequency) /\ ~IsNone(record.tags)

\* payload.model_dump(exclude_unset=True)
model_dump(b) == [k \in GivenFields(b) |-> b[k][1]]

\* As ApplyUpdates, were created_at stamped along with updated_at.
ApplyUpdatesTouchesCreated(record, updates, now) ==
    [k \in DOMAIN record |->
        IF k \in {"updated_at", "created_at"} THEN now
        ELSE IF k \in DOMAIN updates THEN updates[k]
        ELSE record[k]]

\* As ApplyUpdates, were updated_at not refreshed.
ApplyUpdatesStale(record, updates, now) ==
    [k \in DOMAIN record |-> IF k \in DOMAIN updates THEN updates[k] ELSE record[k]]

\* for k, v in updates.items(): record[k] = v ; record["updated_at"] = utcnow()
ApplyUpdates(record, updates, now) ==
    [k \in DOMAIN record |->
        IF k = "updated_at" THEN now
        ELSE IF k \in DOMAIN updates THEN updates[k]
        ELSE record[k]]

(* ----------------------------- responses ------------------------------- *)
Response(status, body) == [status |-> status, body |-> body]
Ok(body) == Response(200, body)
NoContent == Response(204, None)
NotFound(detail) == Response(404, detail)
Unprocessable == Response(422, "validation error")
ServerError == Response(500, "Internal Server Error")

(* ------------------------------ listing -------------------------------- *)
Contains(tags, tag) == \E i \in 1..Len(tags) : tags[i] = tag

\* items[start:end]
Slice(items, start, end) ==
    LET hi == IF end < Len(items) THEN end ELSE Len(items)
    IN  IF start >= hi THEN <<>> ELSE SubSeq(items, start + 1, hi)

QueryValid(page, size) == page >= PageMin /\ size >= SizeMin /\ size <= SizeMax

\* [t for t in items if tag in t.get("tags", [])] raises TypeError on tags = None
TagFilterRaises(items, tag) ==
    ~IsNone(tag) /\ \E i \in 1..Len(items) : IsNone(items[i].tags)

TagFilter(items, tag) ==
    IF IsNone(tag) THEN items
    ELSE SelectSeq(items, LAMBDA t : Contains(Val(t.tags), Val(tag)))

\* [t for t in items if t.get("completed") is completed]
CompletedFilter(items, completed) ==
    IF IsNone(completed) THEN items
    ELSE SelectSeq(items, LAMBDA t : t.completed = completed)

ListTasks(store, page, size, tag, completed) ==
    LET items == DictValues(store)
    IN  IF TagFilterRaises(items, tag) THEN ServerError
        ELSE LET filtered == CompletedFilter(TagFilter(items, tag), completed)
                 start == (page - 1) * size
                 out == Slice(filtered, start, start + size)
             IN  IF \A i \in 1..Len(out) : Task(out[i]) THEN Ok(out) ELSE ServerError

ListHabits(store, page, size, tag) ==
    LET items == DictValues(store)
    IN  IF TagFilterRaises(items, tag) THEN ServerError
        ELSE LET filtered == TagFilter(items, tag)
                 start == (page - 1) * size
                 out == Slice(filtered, start, start + size)
             IN  IF \A i \in 1..Len(out) : Habit(out[i]) THEN Ok(out) ELSE ServerError

(* --------------------------- environment ------------------------------- *)
utcnow == clock
uuid4 == issued + 1
Ids == 1..MaxIds
Threads == 1..MaxThreads
Idle(status) == [pc |-> "idle", id |-> 0, body |-> None, status |-> status]
Pages == 0..(MaxIds + 1)
Sizes == (0..MaxIds) \cup {SizeMax, SizeMax + 1}

Init ==
    /\ TASKS = <<>>
    /\ HABITS = <<>>
    /\ clock = 0
    /\ issued = 0
    /\ req = [op |-> "none", id |-> 0, body |-> None]
    /\ resp = Response(0, None)
    /\ deleted = {}
    /\ untouched = <<>>
    /\ nreq = 0
    /\ threads = [t \in Threads |-> Idle(0)]
    /\ orphans = <<>>

\* One more request is taken up; req remembers which handler and which id.
Request(op, id, body) ==
    /\ nreq < MaxRequests
    /\ nreq' = nreq + 1
    /\ req' = [op |-> op, id |-> id, body |-> body]
    /\ UNCHANGED <<threads, orphans>>

Tick ==
    /\ clock < MaxClock
    /\ clock' = clock + 1
    /\ UNCHANGED <<TASKS, HABITS, issued, req, resp, deleted, untouched, nreq, threads, orphans>>

health_check ==
    /\ Request("health_check", 0, None)
    /\ resp' = Ok("Healthy")
    /\ UNCHANGED <<TASKS, HABITS, clock, issued, deleted, untouched>>

(* ------------------------------ tasks ---------------------------------- *)
list_tasks(page, size, tag, completed) ==
    /\ Request("list_tasks", 0, None)
    /\ resp' = IF QueryValid(page, size)
               THEN ListTasks(TASKS, page, size, tag, completed)
               ELSE Unprocessable
    /\ UNCHANGED <<TASKS, HABITS, clock, issued, deleted, untouched>>

\* As TaskRecord, were the description not copied from the payload.
TaskRecordDropsDescription(task_id, payload, now) ==
    [id |-> task_id,
     title |-> payload.title,
     description |-> None,
     due_date |-> payload.due_date,
     priority |-> IF ~IsNone(payload.priority) THEN payload.priority
                  ELSE Some(DefaultPriority),
     tags |-> IF Len(Val(payload.tags)) = 0 THEN Some(<<>>) ELSE payload.tags,
     completed |-> payload.completed,
     created_at |-> now,
     updated_at |-> now]

TaskRecord(task_id, payload, now) ==
    [id |-> task_id,
     title |-> payload.title,
     description |-> payload.description,
     due_date |-> payload.due_date,
     priority |-> IF ~IsNone(payload.priority) THEN payload.priority
                  ELSE Some(DefaultPriority),
     tags |-> IF Len(Val(payload.tags)) = 0 THEN Some(<<>>) ELSE payload.tags,
     completed |-> payload.completed,
     created_at |-> now,
     updated_at |-> now]

create_task(body) ==
    IF ~TaskCreateValid(body)
    THEN /\ Request("create_task", 0, None)
         /\ resp' = Unprocessable
         /\ UNCHANGED <<TASKS, HABITS, clock, issued, deleted, untouched>>
    ELSE /\ issued < MaxIds
         /\ Request("create_task", uuid4, Some(body))
         /\ LET record == TaskRecord(uuid4, TaskCreate(body), utcnow)
            IN  /\ TASKS' = DictSet(TASKS, uuid4, record)
                /\ resp' = Ok(record)
                /\ untouched' = Append(untouched, Some(record))
         /\ issued' = uuid4
         /\ UNCHANGED <<HABITS, clock, deleted>>

get_task(task_id) ==
    /\ Request("get_task", task_id, None)
    /\ LET record == DictGet(TASKS, task_id)
       IN  resp' = IF IsNone(record) THEN NotFound("Task not found")
                   ELSE IF Task(Val(record)) THEN Ok(Val(record))
                   ELSE ServerError
    /\ UNCHANGED <<TASKS, HABITS, clock, issued, deleted, untouched>>

update_task(task_id, body) ==
    /\ LET record == DictGet(TASKS, task_id)
       IN  IF IsNone(record)
           THEN /\ Request("update_task", task_id, None)
                /\ resp' = NotFound("Task not found")
                /\ UNCHANGED <<TASKS, untouched>>
           ELSE LET merged == ApplyUpdates(Val(record), model_dump(body), utcnow)
                IN  /\ Request("update_task", task_id, Some(body))
                    /\ TASKS' = DictSet(TASKS, task_id, merged)
                    /\ resp' = IF Task(merged) THEN Ok(merged) ELSE ServerError
                    /\ untouched' = [untouched EXCEPT ![task_id] = None]
    /\ UNCHANGED <<HABITS, clock, issued, deleted>>

delete_task(task_id) ==
    /\ Request("delete_task", task_id, None)
    /\ IF ~DictHas(TASKS, task_id)
       THEN /\ resp' = NotFound("Task not found")
            /\ UNCHANGED <<TASKS, deleted, untouched>>
       ELSE /\ TASKS' = DictDel(TASKS, task_id)
            /\ resp' = NoContent
            /\ deleted' = deleted \cup {task_id}
            /\ untouched' = [untouched EXCEPT ![task_id] = None]
    /\ UNCHANGED <<HABITS, clock, issued>>

(* ------------------------------ habits --------------------------------- *)
list_habits(page, size, tag) ==
    /\ Request("list_habits", 0, None)
    /\ resp' = IF QueryValid(page, size)
               THEN ListHabits(HABITS, page, size, tag)
               ELSE Unprocessable
    /\ UNCHANGED <<TASKS, HABITS, clock, issued, deleted, untouched>>

HabitRecord(habit_id, payload, now) ==
    [id |-> habit_id,
     name |-> payload.name,
     description |-> payload.description,
     frequency |-> payload.frequency,
     target |-> payload.target,
     unit |-> payload.unit,
     tags |-> IF Len(Val(payload.tags)) = 0 THEN Some(<<>>) ELSE payload.tags,
     created_at |-> now,
     updated_at |-> now]

create_habit(body) ==
    IF ~HabitCreateValid(body)
    THEN /\ Request("create_habit", 0, None)
         /\ resp' = Unprocessable
         /\ UNCHANGED <<TASKS, HABITS, clock, issued, deleted, untouched>>
    ELSE /\ issued < MaxIds
         /\ Request("create_habit", uuid4, Some(body))
         /\ LET record == HabitRecord(uuid4, HabitCreate(body), utcnow)
            IN  /\ HABITS' = DictSet(HABITS, uuid4, record)
                /\ resp' = Ok(record)
                /\ untouched' = Append(untouched, Some(record))
         /\ issued' = uuid4
         /\ UNCHANGED <<TASKS, clock, deleted>>

get_habit(habit_id) ==
    /\ Request("get_habit", habit_id, None)
    /\ LET record == DictGet(HABITS, habit_id)
       IN  resp' = IF IsNone(record) THEN NotFound("Habit not found")
                   ELSE IF Habit(Val(record)) THEN Ok(Val(record))
                   ELSE ServerError
    /\ UNCHANGED <<TASKS, HABITS, clock, issued, deleted, untouched>>

update_habit(habit_id, body) ==
    /\ LET record == DictGet(HABITS, habit_id)
       IN  IF IsNone(record)
           THEN /\ Request("update_habit", habit_id, None)
                /\ resp' = NotFound("Habit not found")
                /\ UNCHANGED <<HABITS, untouched>>
           ELSE LET merged == ApplyUpdates(Val(record), model_dump(body), utcnow)
                IN  /\ Request("update_habit", habit_id, Some(body))
                    /\ HABITS' = DictSet(HABITS, habit_id, merged)
                    /\ resp' = IF Habit(merged) THEN Ok(merged) ELSE ServerError
                    /\ untouched' = [untouched EXCEPT ![habit_id] = None]
    /\ UNCHANGED <<TASKS, clock, issued, deleted>>

delete_habit(habit_id) ==
    /\ Request("delete_habit", habit_id, None)
    /\ IF ~DictHas(HABITS, habit_id)
       THEN /\ resp' = NotFound("Habit not found")
            /\ UNCHANGED <<HABITS, deleted, untouched>>
       ELSE /\ HABITS' = DictDel(HABITS, habit_id)
            /\ resp' = NoContent
            /\ deleted' = deleted \cup {habit_id}
            /\ untouched' = [untouched EXCEPT ![habit_id] = None]
    /\ UNCHANGED <<TASKS, clock, issued>>

Next ==
    \/ Tick
    \/ health_check
    \/ \E page \in Pages, size \in Sizes, tag \in Opt(TagNames), completed \in Opt(BOOLEAN) :
          list_tasks(page, size, tag, completed)
    \/ \E body \in TaskBodies : create_task(body)
    \/ \E task_id \in Ids : get_task(task_id)
    \/ \E task_id \in Ids, body \in TaskUpdateBodies : update_task(task_id, body)
    \/ \E task_id \in Ids : delete_task(task_id)
    \/ \E page \in Pages, size \in Sizes, tag \in Opt(TagNames) : list_habits(page, size, tag)
    \/ \E body \in HabitBodies : create_habit(body)
    \/ \E habit_id \in Ids : get_habit(habit_id)
    \/ \E habit_id \in Ids, body \in HabitUpdateBodies : update_habit(habit_id, body)
    \/ \E habit_id \in Ids : delete_habit(habit_id)

Spec == Init /\ [][Next]_vars

(* ------------- handlers running on pool threads, step by step ---------- *)
\* The task handlers again, split where they touch TASKS.  The history
\* variable deleted is kept; req, resp and untouched belong to the
\* one-request-at-a-time handlers above and stay as create_task left them.
\* FastAPI runs "def" handlers on a thread pool.  Each step below is one
\* access to the shared dict; a record is one dict object, reached through
\* the store while its key is there and through orphans afterwards.
Obj(id) == IF DictHas(TASKS, id) THEN Val(DictGet(TASKS, id)) ELSE Val(DictGet(orphans, id))

Referenced(id, t) ==
    \E u \in Threads \ {t} :
        threads[u].id = id /\ threads[u].pc \in {"update_got", "update_applied"}

Start(t) ==
    /\ threads[t].pc = "idle"
    /\ nreq < MaxRequests
    /\ nreq' = nreq + 1

\* record = TASKS.get(task_id); if not record: raise 404
update_task_get(t, task_id, body) ==
    /\ Start(t)
    /\ threads' = [threads EXCEPT ![t] =
          IF DictHas(TASKS, task_id)
          THEN [pc |-> "update_got", id |-> task_id, body |-> Some(body), status |-> 0]
          ELSE Idle(404)]
    /\ UNCHANGED <<TASKS, HABITS, clock, issued, req, resp, deleted, untouched, orphans>>

\* for k, v in updates.items(): record[k] = v ; record["updated_at"] = utcnow()
update_task_apply(t) ==
    /\ threads[t].pc = "update_got"
    /\ LET id == threads[t].id
           merged == ApplyUpdates(Obj(id), model_dump(Val(threads[t].body)), utcnow)
       IN  IF DictHas(TASKS, id)
           THEN /\ TASKS' = DictSet(TASKS, id, merged)
                /\ UNCHANGED orphans
           ELSE /\ orphans' = DictSet(orphans, id, merged)
                /\ UNCHANGED TASKS
    /\ threads' = [threads EXCEPT ![t].pc = "update_applied"]
    /\ UNCHANGED <<HABITS, clock, issued, req, resp, deleted, untouched, nreq>>

\* TASKS[task_id] = record ; return Task(**record)
update_task_store(t) ==
    /\ threads[t].pc = "update_applied"
    /\ LET id == threads[t].id
       IN  /\ TASKS' = DictSet(TASKS, id, Obj(id))
           /\ orphans' = IF DictHas(orphans, id) THEN DictDel(orphans, id) ELSE orphans
           /\ threads' = [threads EXCEPT ![t] = Idle(IF Task(Obj(id)) THEN 200 ELSE 500)]
    /\ UNCHANGED <<HABITS, clock, issued, req, resp, deleted, untouched, nreq>>

\* if task_id not in TASKS: raise 404
delete_task_check(t, task_id) ==
    /\ Start(t)
    /\ threads' = [threads EXCEPT ![t] =
          IF DictHas(TASKS, task_id)
          THEN [pc |-> "delete_checked", id |-> task_id, body |-> None, status |-> 0]
          ELSE Idle(404)]
    /\ UNCHANGED <<TASKS, HABITS, clock, issued, req, resp, deleted, untouched, orphans>>

\* del TASKS[task_id]  (KeyError when another delete got there first)
delete_task_del(t) ==
    /\ threads[t].pc = "delete_checked"
    /\ LET id == threads[t].id
       IN  IF DictHas(TASKS, id)
           THEN /\ TASKS' = DictDel(TASKS, id)
                /\ orphans' = IF Referenced(id, t) THEN DictSet(orphans, id, Obj(id))
                              ELSE orphans
                /\ deleted' = deleted \cup {id}
                /\ threads' = [threads EXCEPT ![t] = Idle(204)]
           ELSE /\ threads' = [threads EXCEPT ![t] = Idle(500)]
                /\ UNCHANGED <<TASKS, orphans, deleted>>
    /\ UNCHANGED <<HABITS, clock, issued, req, resp, untouched, nreq>>

ConcNext ==
    \/ \E body \in TaskBodies : create_task(body)
    \/ \E t \in Threads, task_id \in Ids, body \in TaskUpdateBodies :
          update_task_get(t, task_id, body)
    \/ \E t \in Threads : update_task_apply(t)
    \/ \E t \in Threads : update_task_store(t)
    \/ \E t \in Threads, task_id \in Ids : delete_task_check(t, task_id)
    \/ \E t \in Threads : delete_task_del(t)

SpecConc == Init /\ [][ConcNext]_vars

(* ======================================================================= *)
(*                              Properties                                 *)
(* ======================================================================= *)
Handled == nreq' # nreq
IdHandlers == {"get_task", "update_task", "delete_task",
               "get_habit", "update_habit", "delete_habit"}
Values(store) == {store[j].value : j \in 1..Len(store)}
Succeeded(op) == req.op = op /\ resp.status = 200
Succeeds(op) == Handled /\ req'.op = op /\ resp'.status = 200

RecordFrame(old, new, body) ==
    /\ DOMAIN new = DOMAIN old
    /\ \A k \in DOMAIN old :
          IF k \in GivenFields(body) THEN new[k] = body[k][1]
          ELSE k # "updated_at" => new[k] = old[k]

StoreFrame(store, store2, id, body) ==
    /\ Len(store2) = Len(store)
    /\ \A j \in 1..Len(store) :
          /\ store2[j].key = store[j].key
          /\ store[j].key # id => store2[j] = store[j]
          /\ store[j].key = id =>
                /\ RecordFrame(store[j].value, store2[j].value, body)
                /\ resp'.body = store2[j].value

C2_UpdateChangesOnlyGivenFields ==
    [][/\ Succeeds("update_task") =>
            HABITS' = HABITS /\ StoreFrame(TASKS, TASKS', req'.id, Val(req'.body))
       /\ Succeeds("update_habit") =>
            TASKS' = TASKS /\ StoreFrame(HABITS, HABITS', req'.id, Val(req'.body))]_vars

C2_Witness ==
    /\ Succeeded("update_task")
    /\ Len(TASKS) = 2
    /\ resp.body.updated_at > resp.body.created_at
    /\ resp.body.title = Some("t2")
    /\ \E j \in 1..2 : TASKS[j].value.title = Some("t1")

(* ----------------------------------------------------------------------- *)
(* C3: with page >= 1 and size in 1..200, list answers with exactly the    *)
(* stored records that match every filter given, in the order they were    *)
(* created, cut to positions [(page-1)*size, (page-1)*size+size).          *)
(* ----------------------------------------------------------------------- *)
RECURSIVE InCreationOrder(_, _)
InCreationOrder(store, n) ==
    IF n = 0 THEN <<>>
    ELSE InCreationOrder(store, n - 1)
            \o (IF DictHas(store, n) THEN <<Val(DictGet(store, n))>> ELSE <<>>)

Tagged(record, tag) ==
    IsNone(tag) \/ (~IsNone(record.tags) /\ Contains(Val(record.tags), Val(tag)))

PageOf(matching, page, size) ==
    LET start == (page - 1) * size
        rest == Len(matching) - start
        n == IF rest < size THEN rest ELSE size
    IN  IF n <= 0 THEN <<>> ELSE [k \in 1..n |-> matching[start + k]]

ExpectedTasks(page, size, tag, completed) ==
    PageOf(SelectSeq(InCreationOrder(TASKS, issued),
                     LAMBDA r : Tagged(r, tag) /\ (IsNone(completed) \/ r.completed = completed)),
           page, size)

ExpectedHabits(page, size, tag) ==
    PageOf(SelectSeq(InCreationOrder(HABITS, issued), LAMBDA r : Tagged(r, tag)), page, size)

C3_ListReturnsMatchingPage ==
    [][/\ (Handled /\ req'.op = "list_tasks") =>
            \A page \in Pages, size \in Sizes, tag \in Opt(TagNames), completed \in Opt(BOOLEAN) :
                (QueryValid(page, size) /\ list_tasks(page, size, tag, completed))
                    => resp' = Ok(ExpectedTasks(page, size, tag, completed))
       /\ (Handled /\ req'.op = "list_habits") =>
            \A page \in Pages, size \in Sizes, tag \in Opt(TagNames) :
                (QueryValid(page, size) /\ list_habits(page, size, tag))
                    => resp' = Ok(ExpectedHabits(page, size, tag))]_vars

(* ----------------------------------------------------------------------- *)
(* C4: after any requests, a list request with page >= 1 and size in       *)
(* 1..200 never ends in an error; past the end it answers an empty list.   *)
(* ----------------------------------------------------------------------- *)
C4_ListNeverErrors ==
    [][/\ (Handled /\ req'.op = "list_tasks") =>
            \A page \in Pages, size \in Sizes, tag \in Opt(TagNames), completed \in Opt(BOOLEAN) :
                (QueryValid(page, size) /\ list_tasks(page, size, tag, completed)) =>
                    /\ resp'.status = 200
                    /\ (page - 1) * size >= Len(TASKS) => resp'.body = <<>>
       /\ (Handled /\ req'.op = "list_habits") =>
            \A page \in Pages, size \in Sizes, tag \in Opt(TagNames) :
                (QueryValid(page, size) /\ list_habits(page, size, tag)) =>
                    /\ resp'.status = 200
                    /\ (page - 1) * size >= Len(HABITS) => resp'.body = <<>>]_vars

(* ----------------------------------------------------------------------- *)
(* C5: a create, update or delete request that ends in an error (404, 422  *)
(* or 500) leaves both stores exactly as they were.                        *)
(* ----------------------------------------------------------------------- *)
C5_ErrorsLeaveStoresAlone ==
    [][(Handled /\ resp'.status \in {404, 422, 500})
          => (TASKS' = TASKS /\ HABITS' = HABITS)]_vars

(* ----------------------------------------------------------------------- *)
(* C6: every stored task has an integer priority in 1..5, never null.      *)
(* ----------------------------------------------------------------------- *)
C6_PriorityInRange ==
    \A j \in 1..Len(TASKS) :
        /\ ~IsNone(TASKS[j].value.priority)
        /\ Val(TASKS[j].value.priority) \in DocPriorityMin..DocPriorityMax

(* ----------------------------------------------------------------------- *)
(* C7: the clock never going backwards, every stored record has            *)
(* updated_at >= created_at; create sets both to the current time,         *)
(* created_at never changes while the record is stored, and an update that *)
(* answers 200 sets updated_at to the current time, which is not earlier   *)
(* than the previous updated_at.                                           *)
(* ----------------------------------------------------------------------- *)
TimestampsOrdered ==
    \A r \in Values(TASKS) \cup Values(HABITS) : r.updated_at >= r.created_at

CreatedAtKept(store, store2) ==
    \A j \in 1..Len(store), k \in 1..Len(store2) :
        store2[k].key = store[j].key =>
            /\ store2[k].value.created_at = store[j].value.created_at
            /\ store2[k].value.updated_at >= store[j].value.updated_at

TimestampSteps ==
    /\ clock' >= clock
    /\ CreatedAtKept(TASKS, TASKS') /\ CreatedAtKept(HABITS, HABITS')
    /\ (Succeeds("create_task") \/ Succeeds("create_habit")) =>
          resp'.body.created_at = clock /\ resp'.body.updated_at = clock
    /\ (Succeeds("update_task") \/ Succeeds("update_habit")) =>
          /\ resp'.body.updated_at = clock
          /\ \E r \in Values(TASKS') \cup Values(HABITS') :
                r.id = req'.id /\ r.updated_at = clock

C7_TimestampsMonotone == []TimestampsOrdered /\ [][TimestampSteps]_vars

C7_Witness ==
    /\ Succeeded("update_habit")
    /\ resp.body.updated_at > resp.body.created_at
    /\ resp.body \in Values(HABITS)

(* ----------------------------------------------------------------------- *)
(* C8: POST answers with a record whose client fields are those of the     *)
(* body, defaults standing in for what the body leaves out (priority 3,    *)
(* completed false, tags empty, frequency "daily", null otherwise), and    *)
(* whose id, created_at and updated_at are filled in; a later GET of that  *)
(* id, with no PATCH or DELETE of it in between, answers with that record. *)
(* ----------------------------------------------------------------------- *)
DefaultOf(k) ==
    CASE k = "priority" -> Some(DefaultPriority)
      [] k = "completed" -> Some(FALSE)
      [] k = "tags" -> Some(<<>>)
      [] k = "frequency" -> Some("daily")
      [] OTHER -> None

ServerFields == {"id", "created_at", "updated_at"}

\* As the specification has it: every field the body carries comes back as carried.
EchoesBody(record, body) ==
    /\ DOMAIN record = DOMAIN body \cup ServerFields
    /\ \A k \in DOMAIN body :
          record[k] = IF body[k] = Unset THEN DefaultOf(k) ELSE body[k][1]

\* As the code has it: a priority carried as null comes back as the default.
EchoesBodyNullPriority(record, body) ==
    /\ DOMAIN record = DOMAIN body \cup ServerFields
    /\ \A k \in DOMAIN body :
          record[k] = IF body[k] = Unset \/ (k = "priority" /\ body[k] = Given(None))
                      THEN DefaultOf(k) ELSE body[k][1]

ServerFieldsSet(record) ==
    record.id = issued + 1 /\ record.created_at = clock /\ record.updated_at = clock

GetReturnsCreated ==
    (Handled /\ req'.op \in {"get_task", "get_habit"} /\ req'.id <= issued) =>
        LET made == untouched[req'.id]
        IN  (~IsNone(made) /\ (req'.op = "get_task" <=> "title" \in DOMAIN Val(made)))
                => resp' = Ok(Val(made))

C8_CreateThenGet_Verbatim ==
    [][/\ Succeeds("create_task") =>
            EchoesBody(resp'.body, Val(req'.body)) /\ ServerFieldsSet(resp'.body)
       /\ Succeeds("create_habit") =>
            EchoesBody(resp'.body, Val(req'.body)) /\ ServerFieldsSet(resp'.body)
       /\ GetReturnsCreated]_vars

C8_CreateThenGet ==
    [][/\ Succeeds("create_task") =>
            EchoesBodyNullPriority(resp'.body, Val(req'.body)) /\ ServerFieldsSet(resp'.body)
       /\ Succeeds("create_habit") =>
            EchoesBodyNullPriority(resp'.body, Val(req'.body)) /\ ServerFieldsSet(resp'.body)
       /\ GetReturnsCreated]_vars

C8_Witness ==
    /\ Succeeded("get_task")
    /\ issued = 2
    /\ req.id = 1
    /\ untouched[1] = Some(resp.body)
    /\ resp.body.description = Some("d1")

(* ----------------------------------------------------------------------- *)
(* C9: uuid4 never repeating, each store key is the id of the record under *)
(* it, no two records of a store share an id, update keeps every record's  *)
(* id, and a deleted id is never handed to a record created later.         *)
(* ----------------------------------------------------------------------- *)
KeysAreIds(store) ==
    /\ \A j \in 1..Len(store) : store[j].key = store[j].value.id
    /\ \A j, k \in 1..Len(store) : store[j].value.id = store[k].value.id => j = k
    /\ \A j \in 1..Len(store) : store[j].key \notin deleted

IdsKept(store, store2) ==
    Len(store2) = Len(store) /\ \A j \in 1..Len(store) : store2[j].value.id = store[j].value.id

IdentifierSteps ==
    /\ (Handled /\ req'.op = "update_task") => IdsKept(TASKS, TASKS')
    /\ (Handled /\ req'.op = "update_habit") => IdsKept(HABITS, HABITS')
    /\ (Succeeds("create_task") \/ Succeeds("create_habit")) =>
          /\ resp'.body.id \notin deleted
          /\ resp'.body.id \notin Keys(TASKS) \cup Keys(HABITS)

C9_IdentifiersUnique ==
    [](KeysAreIds(TASKS) /\ KeysAreIds(HABITS)) /\ [][IdentifierSteps]_vars

C9_Witness ==
    /\ Succeeded("create_task")
    /\ deleted = {1}
    /\ Keys(TASKS) = {2}

(* ----------------------------------------------------------------------- *)
(* C10: with update and delete of one identifier interleaved at their      *)
(* store accesses, an identifier whose delete has returned 204 is absent   *)
(* from the store in every later state.                                    *)
(* ----------------------------------------------------------------------- *)
C10_DeletedNeverReturns == \A id \in deleted : ~DictHas(TASKS, id)

====
